---- MODULE Spec2Model ----
(***************************************************************************)
(* A model of update_counts.py: the per-commit metric cache (load_cache,   *)
(* save_cache, lookup_commit, run) and the aggregation tree builder        *)
(* (generate_flame_graph).                                                 *)
(*                                                                         *)
(* Spec      : runs of run(), with the process killed at any point and     *)
(*             started again.                                              *)
(* SpecFlame : generate_flame_graph() over every bounded working tree.     *)
(***************************************************************************)
EXTENDS Integers, Sequences, FiniteSets, TLC

\* ------------------------------------------------------------------------
\* Bounds of the model
\* ------------------------------------------------------------------------
\* Number of commits the remote branch can hold.
NumCommits == 4
\* Largest number of matching lines the search tool prints for one marker.
MaxMatches == 2
\* Number of process starts in one behaviour.
MaxRuns == 2

\* Save the cache only every X commits (200 in the source, scaled down so
\* that several flush periods fit into NumCommits).
SAVE_CACHE_INV_FREQ == 2

\* ------------------------------------------------------------------------
\* The environment: the remote history and the search tool
\* ------------------------------------------------------------------------
\* Commits are numbered oldest first; 0 is a working tree that is no commit
\* of the list (the tree before the first checkout, or a failed checkout).
NoCommit == 0
Commits == 1 .. NumCommits

\* %ct of a commit, in days.
CommitDate(c) == 10 * c

\* The rank of a commit's hash among the hashes: json.dump(sort_keys=True)
\* orders the file by hash, which is unrelated to the history order.
HashRank(c) == (3 * c) % 7

\* git log origin/master --reverse --format="%H %ct" for a history of n commits.
determine_commit_and_date_list(n) == [k \in 1 .. n |-> <<k, CommitDate(k)>>]

\* Number of lines of the tree `tree` that match marker m (1: FIXME|TODO,
\* 2: DeprecatedFlyString, 3: DeprecatedFile).
TreeMatches(tree, m) == (tree + m) % (MaxMatches + 1)

RECURSIVE GrepStdout(_)
\* stdout of git grep -h printing k matching lines, one "x\n" per line.
GrepStdout(k) == IF k = 0 THEN <<>> ELSE <<"x", "\n">> \o GrepStdout(k - 1)

\* Exit status of git grep: 0 when a line matched, 1 when none did.
GrepStatus(k) == IF k = 0 THEN 1 ELSE 0

RECURSIVE SplitFrom(_, _, _)
\* str.split(sep) of a string given as a sequence of characters: the pieces
\* between the separators, `cur` being the piece under construction.
SplitFrom(s, sep, cur) ==
    IF s = <<>> THEN <<cur>>
    ELSE IF Head(s) = sep THEN <<cur>> \o SplitFrom(Tail(s), sep, <<>>)
    ELSE SplitFrom(Tail(s), sep, Append(cur, Head(s)))

Split(s, sep) == SplitFrom(s, sep, <<>>)

\* Mutant of ScanAsserts: the returncode is not looked at.
ScanAsserts_NoStatus(returncode, stdout) ==
    Split(stdout, "\n")[Len(Split(stdout, "\n"))] = <<>>

\* assert result.returncode in [0, 1]; assert lines[-1] == ""
ScanAsserts(returncode, stdout) ==
    /\ returncode \in {0, 1}
    /\ Split(stdout, "\n")[Len(Split(stdout, "\n"))] = <<>>

\* count_*_here: lines = result.stdout.split("\n"); return len(lines)
CountLines(stdout) == Len(Split(stdout, "\n"))

\* The triple lookup_commit computes for a tree on a cache miss.
ScannedTriple(tree) ==
    [m \in 1 .. 3 |-> CountLines(GrepStdout(TreeMatches(tree, m)))]

\* ------------------------------------------------------------------------
\* The cache file: json.dump / json.load
\* ------------------------------------------------------------------------
\* A file that does not exist.
NoFile == [exists |-> FALSE, entries |-> <<>>, complete |-> FALSE]

RECURSIVE SortedKeys(_)
\* The keys in the order sort_keys=True writes them.
SortedKeys(S) ==
    IF S = {} THEN <<>>
    ELSE LET k == CHOOSE x \in S : \A y \in S : HashRank(x) <= HashRank(y)
         IN <<k>> \o SortedKeys(S \ {k})

\* json.dump(cache, sort_keys=True): the entries in key order.
JsonEntries(cache) ==
    [j \in 1 .. Cardinality(DOMAIN cache) |->
        <<SortedKeys(DOMAIN cache)[j], cache[SortedKeys(DOMAIN cache)[j]]>>]

\* A file holding the whole dump of cache.
JsonFile(cache) ==
    [exists |-> TRUE, entries |-> JsonEntries(cache), complete |-> TRUE]

\* json.load accepts the file only when the closing brace was written.
JsonValid(file) == file.exists /\ file.complete

\* json.load: the mapping a file holds.
JsonLoad(file) ==
    [c \in {file.entries[j][1] : j \in 1 .. Len(file.entries)} |->
        (CHOOSE e \in {file.entries[j] : j \in 1 .. Len(file.entries)} : e[1] = c)[2]]

\* The keys a file holds, whether or not it parses.
FileKeys(file) == {file.entries[j][1] : j \in 1 .. Len(file.entries)}

\* The cache earlier runs left for the first n commits.
CacheOfPrefix(n) == [c \in 1 .. n |-> ScannedTriple(c)]

EmptyCache == [c \in {} |-> <<>>]

VARIABLES
    pc,                  \* where the process is
    run_no,              \* number of the current process start
    commits_and_dates,   \* run: the enumerated list
    cache,               \* run: the in-memory cache
    index,               \* position of the list comprehension in the list
    tagged_commits,      \* run: the rows produced so far
    fixmes,              \* lookup_commit locals
    deprecated_strings,
    deprecated_files,
    save_return,         \* where save_cache returns to
    live_file,           \* FILENAME_CACHE on disk
    cold_file,           \* FILENAME_CACHE_COLD on disk
    csv_file,            \* FILENAME_CSV on disk
    worktree,            \* the commit SERENITY_DIR is checked out at
    result,              \* the last subprocess.run: its command and returncode
    time_now,            \* write_graphs: the clock read there, in days
    last_flush,          \* history: live_file as the last completed flush left it
    checkouts,           \* history: checkouts made in this run
    scans,               \* history: scans made in this run
    flushes,             \* history: flushes completed in this run
    inserted,            \* history: entries inserted in this run
    loaded_size,         \* history: len(cache) when load_cache returned
    loaded_from,         \* history: the file load_cache read in this run
    events,              \* history: what write_graphs and run did in this run
    prev_run,            \* history: how the previous run ended and what it left
    tree,                \* the directories and files below SERENITY_DIR
    scandir_reversed,    \* the order in which os.walk lists a directory
    flamegraph,          \* generate_flame_graph: the Node tree, by path
    walk,                \* the (root, dirs, files) tuples os.walk still yields
    ratios_list,         \* generate_flame_graph: ratios_list
    todo_graph,          \* todo.json
    loc_graph,           \* loc.json
    ratio_csv,           \* ratio.csv
    opened               \* history: the files opened for scanning

vars == <<pc, run_no, commits_and_dates, cache, index, tagged_commits, fixmes,
          deprecated_strings, deprecated_files, save_return, live_file,
          cold_file, csv_file, worktree, result, time_now, last_flush,
          checkouts, scans, flushes, inserted, loaded_size, loaded_from,
          events, prev_run, tree, scandir_reversed, flamegraph, walk,
          ratios_list, todo_graph, loc_graph, ratio_csv, opened>>

flameVars == <<tree, scandir_reversed, flamegraph, walk, ratios_list,
               todo_graph, loc_graph, ratio_csv, opened>>

runVars == <<run_no, commits_and_dates, cache, index, tagged_commits, fixmes,
             deprecated_strings, deprecated_files, save_return, live_file,
             cold_file, csv_file, worktree, result, time_now, last_flush,
             checkouts, scans, flushes, inserted, loaded_size, loaded_from,
             events, prev_run>>

\* No subprocess has been run by lookup_commit yet.
NoResult == [cmd |-> "none", returncode |-> 0]

\* A local of lookup_commit that is not bound yet.
Unbound == 0 - 1

\* The clock readings write_graphs can see, as days after the newest commit.
CommitAges == {1, 7, 30, 31, 400}

\* write_graphs: the three thresholds, in days (the code counts seconds).
time_last_week(now) == now - 7
time_last_month(now) == now - 31
time_last_year(now) == now - 366

WithinLastMonth_AsWeek(most_recent_commit, now) ==
    most_recent_commit > time_last_week(now)

\* write_graphs: the three tests of most_recent_commit.
WithinLastWeek(most_recent_commit, now) ==
    most_recent_commit > time_last_week(now)
WithinLastMonth(most_recent_commit, now) ==
    most_recent_commit > time_last_month(now)
WithinLastYear(most_recent_commit, now) ==
    most_recent_commit > time_last_year(now)

\* commits_and_dates[-1][1], the argument run passes to write_graphs.
MostRecentCommit == commits_and_dates[Len(commits_and_dates)][2]

\* The dict lookup_commit returns (human_readable_time is derived from date).
TaggedCommit(commit, date, f, ds, df) ==
    [commit |-> commit, unix_timestamp |-> date, fixmes |-> f,
     deprecated_strings |-> ds, deprecated_files |-> df]

\* The line run writes to the CSV for one entry.
CsvLine(entry) ==
    <<entry.unix_timestamp, entry.fixmes, entry.deprecated_strings,
      entry.deprecated_files>>

\* The CSV a completed run over the first n commits wrote.
CsvOfPrefix(n) ==
    [k \in 1 .. n |-> <<CommitDate(k), ScannedTriple(k)[1], ScannedTriple(k)[2],
                        ScannedTriple(k)[3]>>]

\* Mutant of CurCommit: the list is walked from its end.
CurCommit_Reversed ==
    commits_and_dates[Len(commits_and_dates) + 1 - index][1]

\* The commit and the date the list comprehension is at.
CurCommit == commits_and_dates[index][1]
CurDate == commits_and_dates[index][2]

\* Mutant of InCache: the test never finds the commit.
InCache_Never(commit) == commit \in {}

\* if commit in cache
InCache(commit) == commit \in DOMAIN cache

\* Mutant of SaveDue: the entries inserted in this run are counted instead
\* of the entries the cache holds.
SaveDue_PerRun(c) == (inserted + 1) % SAVE_CACHE_INV_FREQ = 0

\* if len(cache) % SAVE_CACHE_INV_FREQ == 0
SaveDue(c) == Cardinality(DOMAIN c) % SAVE_CACHE_INV_FREQ = 0

\* Mutant of StoreEntry: the mapping is rebuilt from the new entry alone.
StoreEntry_Evict(c, commit, triple) == [k \in {commit} |-> triple]

\* cache[commit] = triple
StoreEntry(c, commit, triple) ==
    [k \in DOMAIN c \cup {commit} |-> IF k = commit THEN triple ELSE c[k]]

\* What one run of the search tool for marker m can give: the matching lines
\* of the working tree, or an execution error (status 2, nothing printed).
GrepRuns(m) ==
    { <<GrepStatus(TreeMatches(worktree, m)), GrepStdout(TreeMatches(worktree, m))>>,
      <<2, <<>>>> }

\* ------------------------------------------------------------------------
\* The working tree generate_flame_graph walks
\* ------------------------------------------------------------------------
\* The names a directory listing can hold, in the order scandir gives them.
ScandirOrder ==
    <<".devcontainer", ".git", "Lib", "Web", "a.h", "b.cpp", "c.js", "d.txt",
      "x.html">>

\* The directories and the files a working tree of the model can hold.
CandidateDirs ==
    {<<"Lib">>, <<"Lib", "Web">>, <<".git">>, <<"Lib", ".devcontainer">>}
CandidateFiles ==
    {<<"a.h">>, <<"Lib", "b.cpp">>, <<"Lib", "Web", "c.js">>,
     <<"Lib", "Web", "d.txt">>, <<"Lib", "Web", "x.html">>, <<".git", "a.h">>,
     <<"Lib", ".devcontainer", "a.h">>}

\* A file is a sequence of lines, a line a sequence of tokens; "0xFF" is a
\* byte sequence that is no UTF-8.
FileContents ==
    { <<>>,
      << <<"x">> >>,
      << <<" ", "//", " ", "todo">>, <<"x", "FIXME", "todo">>, <<" ">> >>,
      << <<"//", "TODO">> >>,
      << <<"FIXME", "x">>, <<"0xFF">>, <<"x">> >> }

\* The contents of the files that are never scanned.
PlainContent == << <<"x", "TODO">> >>

\* The path without its last segment.
Parent(path) == SubSeq(path, 1, Len(path) - 1)

\* The files of the model whose lines are read.
ReadFiles == {<<"a.h">>, <<"Lib", "b.cpp">>, <<"Lib", "Web", "c.js">>}

\* The trees of the model: every entry lies in a directory of the tree.
Trees ==
    { t \in { [dirs |-> D,
               files |-> [f \in F |-> IF f \in ReadFiles THEN c[f] ELSE PlainContent]] :
                 D \in SUBSET CandidateDirs, F \in SUBSET CandidateFiles,
                 c \in [ReadFiles -> FileContents] } :
        /\ \A d \in t.dirs : Parent(d) = <<>> \/ Parent(d) \in t.dirs
        /\ \A f \in DOMAIN t.files : Parent(f) = <<>> \/ Parent(f) \in t.dirs }

\* The tree of a run of Spec: its aggregation is followed in SpecFlame.
NoTree == [dirs |-> {}, files |-> [f \in {} |-> <<>>]]

RECURSIVE Reverse(_)
Reverse(seq) == IF seq = <<>> THEN <<>> ELSE Append(Reverse(Tail(seq)), Head(seq))

\* os.scandir of directory d: the names of its subdirectories and of its files.
ListDirs(t, rev, d) ==
    LET names == SelectSeq(ScandirOrder, LAMBDA n : Append(d, n) \in t.dirs)
    IN IF rev THEN Reverse(names) ELSE names
ListFiles(t, rev, d) ==
    LET names == SelectSeq(ScandirOrder, LAMBDA n : Append(d, n) \in DOMAIN t.files)
    IN IF rev THEN Reverse(names) ELSE names

RECURSIVE OsWalk(_, _, _)
RECURSIVE OsWalkEach(_, _, _, _)
\* os.walk(d, topdown=False): the tuples of the subdirectories, then d's.
OsWalk(t, rev, d) ==
    OsWalkEach(t, rev, d, ListDirs(t, rev, d))
        \o << [root |-> <<".">> \o d, dirs |-> ListDirs(t, rev, d),
               files |-> ListFiles(t, rev, d)] >>
OsWalkEach(t, rev, d, names) ==
    IF names = <<>> THEN <<>>
    ELSE OsWalk(t, rev, Append(d, Head(names))) \o OsWalkEach(t, rev, d, Tail(names))

\* os.path.normpath(path).split(os.path.sep) of "./a/b": the "." is dropped.
NormSplit(full_name) == SelectSeq(full_name, LAMBDA seg : seg # ".")

\* The suffix of a name from its last dot on.
Suffix(name) ==
    CASE name = "a.h" -> ".h"
      [] name = "b.cpp" -> ".cpp"
      [] name = "c.js" -> ".js"
      [] name = "d.txt" -> ".txt"
      [] name = "x.html" -> ".html"
      [] OTHER -> ""

\* any(name.endswith(ext) for ext in [...]): "*.txt" and "*.cmake" are
\* literal suffixes, no patterns.
ScannedExtensions == {".h", ".c", ".cpp", ".html", ".js", ".sh", "*.txt", "*.cmake"}
HasScannedExtension(name) == Suffix(name) \in ScannedExtensions

\* The full names that are never scanned (the two fixture files of the
\* source, five levels deep there).
SkippedFullNames == { <<".", "Lib", "Web", "x.html">> }

\* Node(name=..., children=[]): todos and locs are 0 by the class.
NewNode(name) == [name |-> name, children |-> <<>>, todos |-> 0, locs |-> 0]

RECURSIVE get_node_NoExclusion(_, _, _)
\* Mutant of get_node: no segment makes it return None.
get_node_NoExclusion(graph, at, rest) ==
    IF rest = <<>> THEN [graph |-> graph, found |-> TRUE, node |-> at]
    ELSE IF \E k \in 1 .. Len(graph[at].children) : graph[at].children[k] = Head(rest)
    THEN get_node_NoExclusion(graph, Append(at, Head(rest)), Tail(rest))
    ELSE get_node_NoExclusion(
           [q \in DOMAIN graph \cup {Append(at, Head(rest))} |->
               IF q = Append(at, Head(rest)) THEN NewNode(Head(rest))
               ELSE IF q = at
               THEN [graph[at] EXCEPT !.children = Append(@, Head(rest))]
               ELSE graph[q]],
           Append(at, Head(rest)), Tail(rest))

RECURSIVE get_node(_, _, _)
\* get_node(path), from node `at` on over the segments `rest`: the graph
\* with the nodes it created, and the node it returns (found = FALSE: None).
get_node(graph, at, rest) ==
    IF rest = <<>> THEN [graph |-> graph, found |-> TRUE, node |-> at]
    ELSE IF Head(rest) \in {".git", ".devcontainer"}
    THEN [graph |-> graph, found |-> FALSE, node |-> at]
    ELSE IF \E k \in 1 .. Len(graph[at].children) : graph[at].children[k] = Head(rest)
    THEN get_node(graph, Append(at, Head(rest)), Tail(rest))
    ELSE get_node(
           [q \in DOMAIN graph \cup {Append(at, Head(rest))} |->
               IF q = Append(at, Head(rest)) THEN NewNode(Head(rest))
               ELSE IF q = at
               THEN [graph[at] EXCEPT !.children = Append(@, Head(rest))]
               ELSE graph[q]],
           Append(at, Head(rest)), Tail(rest))

\* line.strip(): the blanks at both ends are dropped.
RECURSIVE LStrip(_)
LStrip(line) ==
    IF line # <<>> /\ Head(line) = " " THEN LStrip(Tail(line)) ELSE line
Strip(line) == Reverse(LStrip(Reverse(LStrip(line))))

\* str.upper() of a token.
UpperToken(tok) == IF tok = "todo" THEN "TODO" ELSE tok
Upper(line) == [k \in 1 .. Len(line) |-> UpperToken(line[k])]

\* line.count(word)
Count(line, word) == Cardinality({k \in 1 .. Len(line) : line[k] = word})

\* The line cannot be decoded as UTF-8.
Undecodable(line) == \E k \in 1 .. Len(line) : line[k] = "0xFF"

RECURSIVE ScanLines_KeepPartial(_, _, _)
\* Mutant of ScanLines: at a line that cannot be decoded the loop ends with
\* the counts it has.
ScanLines_KeepPartial(lines, todos, locs) ==
    IF lines = <<>> THEN [decoded |-> TRUE, todos |-> todos, locs |-> locs]
    ELSE IF Undecodable(Head(lines))
    THEN [decoded |-> TRUE, todos |-> todos, locs |-> locs]
    ELSE LET line == Upper(Strip(Head(lines)))
         IN ScanLines_KeepPartial(Tail(lines),
                      todos + Count(line, "FIXME") + Count(line, "TODO"),
                      IF line # <<>> /\ Head(line) # "//" THEN locs + 1 ELSE locs)

RECURSIVE ScanLines(_, _, _)
\* The loop over the lines of a file from the counts so far: the counts at
\* the end, or a UnicodeDecodeError.
ScanLines(lines, todos, locs) ==
    IF lines = <<>> THEN [decoded |-> TRUE, todos |-> todos, locs |-> locs]
    ELSE IF Undecodable(Head(lines))
    THEN [decoded |-> FALSE, todos |-> todos, locs |-> locs]
    ELSE LET line == Upper(Strip(Head(lines)))
         IN ScanLines(Tail(lines),
                      todos + Count(line, "FIXME") + Count(line, "TODO"),
                      IF line # <<>> /\ Head(line) # "//" THEN locs + 1 ELSE locs)

RECURSIVE SumChildren(_, _, _, _)
\* sum(child.<field> for child in node.children)
SumChildren(graph, at, names, field) ==
    IF names = <<>> THEN 0
    ELSE graph[Append(at, Head(names))][field]
           + SumChildren(graph, at, Tail(names), field)

\* Mutant of Retained: every child is kept.
Retained_All(new_child) == TRUE

\* if new_child["value"] or new_child.get("children", [])
Retained(new_child) ==
    \/ new_child.value # 0
    \/ "children" \in DOMAIN new_child /\ new_child.children # <<>>

RECURSIVE set_value(_, _, _)
RECURSIVE set_value_children(_, _, _, _)
\* set_value(calculate, node), calculate being the field that is read.
set_value(field, graph, at) ==
    LET children == set_value_children(field, graph, at, graph[at].children)
    IN IF children # <<>>
       THEN [name |-> graph[at].name, value |-> graph[at][field],
             children |-> children]
       ELSE [name |-> graph[at].name, value |-> graph[at][field]]
\* The loop of set_value over node.children.
set_value_children(field, graph, at, names) ==
    IF names = <<>> THEN <<>>
    ELSE LET new_child == set_value(field, graph, Append(at, Head(names)))
         IN (IF Retained(new_child) THEN <<new_child>> ELSE <<>>)
              \o set_value_children(field, graph, at, Tail(names))

\* f"{e[0]},{e[1]},{e[2]:.2%},{e[3]}": the ratio e[2], kept as the pair
\* <<todos, locs>>, in hundredths of a percent, a tie rounded to even.
RatioLine(e) ==
    LET q == (e[3][1] * 10000) \div e[3][2]
        r == 2 * ((e[3][1] * 10000) % e[3][2])
        up == r > e[3][2] \/ (r = e[3][2] /\ q % 2 = 1)
    IN <<e[1], e[2], IF up THEN q + 1 ELSE q, e[4]>>

historyVars == <<checkouts, scans, flushes, inserted, loaded_size>>
localVars == <<fixmes, deprecated_strings, deprecated_files, result>>
diskVars == <<live_file, cold_file, csv_file, worktree>>
logVars == <<loaded_from, events, prev_run>>

Init ==
    /\ pc = "load_cache"
    /\ run_no = 1
    /\ \E n \in 1 .. NumCommits :
         /\ commits_and_dates = determine_commit_and_date_list(n)
         /\ \E j \in 0 .. n :
              \/ /\ live_file = JsonFile(CacheOfPrefix(j))
                 /\ csv_file = CsvOfPrefix(j)
              \/ /\ j = 0
                 /\ live_file = NoFile
                 /\ csv_file = <<>>
         /\ \E s \in 0 .. (IF n < 2 THEN n ELSE 2) :
              cold_file = JsonFile(CacheOfPrefix(s))
    /\ cache = EmptyCache
    /\ index = 1
    /\ tagged_commits = <<>>
    /\ fixmes = Unbound
    /\ deprecated_strings = Unbound
    /\ deprecated_files = Unbound
    /\ save_return = "none"
    /\ worktree = NoCommit
    /\ result = NoResult
    /\ time_now = 0
    /\ last_flush = live_file
    /\ checkouts = 0
    /\ scans = 0
    /\ flushes = 0
    /\ inserted = 0
    /\ loaded_size = 0
    /\ loaded_from = "none"
    /\ events = {}
    /\ prev_run = [outcome |-> "none", commits_and_dates |-> <<>>,
                   live_file |-> live_file, csv_file |-> csv_file]
    /\ tree = NoTree
    /\ scandir_reversed = FALSE
    /\ flamegraph = [q \in {<<>>} |-> NewNode(".")]
    /\ walk = <<>>
    /\ ratios_list = <<>>
    /\ todo_graph = NoFile
    /\ loc_graph = NoFile
    /\ ratio_csv = NoFile
    /\ opened = {}

\* load_cache, the live file exists: json.load of it (a file json.load
\* rejects raises JSONDecodeError, which ends the run).
LoadLive ==
    /\ pc = "load_cache"
    /\ live_file.exists
    /\ IF JsonValid(live_file)
       THEN /\ cache' = JsonLoad(live_file)
            /\ loaded_size' = Cardinality(DOMAIN cache')
            /\ pc' = "lookup_commit"
       ELSE /\ pc' = "aborted"
            /\ UNCHANGED <<cache, loaded_size>>
    /\ UNCHANGED <<run_no, commits_and_dates, index, tagged_commits, localVars,
                   save_return, diskVars, time_now, last_flush, checkouts,
                   scans, flushes, inserted>>
    /\ loaded_from' = "live"
    /\ UNCHANGED <<events, prev_run>>
    /\ UNCHANGED flameVars

\* Mutant of LoadCold: the cold cache is returned without save_cache.
LoadCold_NoSave ==
    /\ pc = "load_cache"
    /\ ~live_file.exists
    /\ cache' = JsonLoad(cold_file)
    /\ loaded_size' = Cardinality(DOMAIN cache')
    /\ pc' = "lookup_commit"
    /\ UNCHANGED <<run_no, commits_and_dates, index, tagged_commits, localVars,
                   save_return, diskVars, time_now, last_flush, checkouts,
                   scans, flushes, inserted>>
    /\ loaded_from' = "cold"
    /\ UNCHANGED <<events, prev_run>>
    /\ UNCHANGED flameVars

\* load_cache, no live file: json.load of the cold file, then save_cache.
LoadCold ==
    /\ pc = "load_cache"
    /\ ~live_file.exists
    /\ cache' = JsonLoad(cold_file)
    /\ loaded_size' = Cardinality(DOMAIN cache')
    /\ save_return' = "lookup_commit"
    /\ pc' = "save_cache"
    /\ UNCHANGED <<run_no, commits_and_dates, index, tagged_commits, localVars,
                   diskVars, time_now, last_flush, checkouts, scans, flushes,
                   inserted>>
    /\ loaded_from' = "cold"
    /\ UNCHANGED <<events, prev_run>>
    /\ UNCHANGED flameVars

\* save_cache: open(FILENAME_CACHE, "w") creates the file or truncates it.
SaveOpen ==
    /\ pc = "save_cache"
    /\ live_file' = [exists |-> TRUE, entries |-> <<>>, complete |-> FALSE]
    /\ pc' = "json_dump"
    /\ UNCHANGED <<run_no, commits_and_dates, cache, index, tagged_commits,
                   localVars, save_return, cold_file, csv_file, worktree,
                   time_now, last_flush, historyVars>>
    /\ UNCHANGED flameVars
    /\ UNCHANGED logVars

\* save_cache: json.dump writes the next entry.
SaveWrite ==
    /\ pc = "json_dump"
    /\ Len(live_file.entries) < Cardinality(DOMAIN cache)
    /\ live_file' = [live_file EXCEPT
         !.entries = Append(@, JsonEntries(cache)[Len(live_file.entries) + 1])]
    /\ UNCHANGED <<pc, run_no, commits_and_dates, cache, index, tagged_commits,
                   localVars, save_return, cold_file, csv_file, worktree,
                   time_now, last_flush, historyVars>>
    /\ UNCHANGED flameVars
    /\ UNCHANGED logVars

\* save_cache: json.dump writes the closing brace and the file is closed.
SaveClose ==
    /\ pc = "json_dump"
    /\ Len(live_file.entries) = Cardinality(DOMAIN cache)
    /\ live_file' = [live_file EXCEPT !.complete = TRUE]
    /\ last_flush' = live_file'
    /\ flushes' = flushes + 1
    /\ pc' = save_return
    /\ UNCHANGED <<run_no, commits_and_dates, cache, index, tagged_commits,
                   localVars, save_return, cold_file, csv_file, worktree,
                   time_now, checkouts, scans, inserted, loaded_size>>
    /\ UNCHANGED flameVars
    /\ UNCHANGED logVars

\* lookup_commit, commit in cache: the stored triple is returned.
LookupHit ==
    /\ pc = "lookup_commit"
    /\ index <= Len(commits_and_dates)
    /\ InCache(CurCommit)
    /\ tagged_commits' = Append(tagged_commits,
         TaggedCommit(CurCommit, CurDate, cache[CurCommit][1],
                      cache[CurCommit][2], cache[CurCommit][3]))
    /\ index' = index + 1
    /\ UNCHANGED <<pc, run_no, commits_and_dates, cache, localVars, save_return,
                   diskVars, time_now, last_flush, historyVars>>
    /\ UNCHANGED flameVars
    /\ UNCHANGED logVars

\* lookup_commit, commit not in cache: the else branch is entered.
LookupMiss ==
    /\ pc = "lookup_commit"
    /\ index <= Len(commits_and_dates)
    /\ ~InCache(CurCommit)
    /\ fixmes' = Unbound
    /\ deprecated_strings' = Unbound
    /\ deprecated_files' = Unbound
    /\ result' = NoResult
    /\ pc' = "checkout"
    /\ UNCHANGED <<run_no, commits_and_dates, cache, index, tagged_commits,
                   save_return, diskVars, time_now, last_flush, historyVars>>
    /\ UNCHANGED flameVars
    /\ UNCHANGED logVars

\* Mutant of Checkout: the command succeeds and leaves the tree where it was.
Checkout_Stale ==
    /\ pc = "checkout"
    /\ worktree' = worktree
    /\ result' = [cmd |-> "checkout", returncode |-> 0]
    /\ checkouts' = checkouts + 1
    /\ pc' = "count_fixmes_here"
    /\ UNCHANGED <<run_no, commits_and_dates, cache, index, tagged_commits,
                   fixmes, deprecated_strings, deprecated_files, save_return, live_file, cold_file, csv_file,
                   time_now, last_flush, scans, flushes, inserted, loaded_size>>
    /\ UNCHANGED flameVars
    /\ UNCHANGED logVars

\* git checkout -q commit, check=True: the tree is at the commit.
Checkout ==
    /\ pc = "checkout"
    /\ worktree' = CurCommit
    /\ result' = [cmd |-> "checkout", returncode |-> 0]
    /\ checkouts' = checkouts + 1
    /\ pc' = "count_fixmes_here"
    /\ UNCHANGED <<run_no, commits_and_dates, cache, index, tagged_commits,
                   fixmes, deprecated_strings, deprecated_files, save_return, live_file, cold_file, csv_file,
                   time_now, last_flush, scans, flushes, inserted, loaded_size>>
    /\ UNCHANGED flameVars
    /\ UNCHANGED logVars

\* git checkout fails: CalledProcessError ends the run; the tree is left as
\* it was or in between.
CheckoutFails ==
    /\ pc = "checkout"
    /\ worktree' \in {worktree, NoCommit}
    /\ result' = [cmd |-> "checkout", returncode |-> 1]
    /\ pc' = "aborted"
    /\ UNCHANGED <<run_no, commits_and_dates, cache, index, tagged_commits,
                   fixmes, deprecated_strings, deprecated_files, save_return, live_file, cold_file, csv_file,
                   time_now, last_flush, historyVars>>
    /\ UNCHANGED flameVars
    /\ UNCHANGED logVars

\* count_fixmes_here
CountFixmesHere ==
    /\ pc = "count_fixmes_here"
    /\ \E r \in GrepRuns(1) :
         /\ result' = [cmd |-> "grep", returncode |-> r[1]]
         /\ IF ScanAsserts(r[1], r[2])
            THEN /\ fixmes' = CountLines(r[2])
                 /\ pc' = "count_deprecated_strings_here"
            ELSE /\ pc' = "aborted"
                 /\ UNCHANGED fixmes
    /\ scans' = scans + 1
    /\ UNCHANGED <<run_no, commits_and_dates, cache, index, tagged_commits,
                   deprecated_strings, deprecated_files, save_return, diskVars,
                   time_now, last_flush, checkouts, flushes, inserted,
                   loaded_size>>
    /\ UNCHANGED flameVars
    /\ UNCHANGED logVars

\* count_deprecated_strings_here
CountDeprecatedStringsHere ==
    /\ pc = "count_deprecated_strings_here"
    /\ \E r \in GrepRuns(2) :
         /\ result' = [cmd |-> "grep", returncode |-> r[1]]
         /\ IF ScanAsserts(r[1], r[2])
            THEN /\ deprecated_strings' = CountLines(r[2])
                 /\ pc' = "count_deprecated_files_here"
            ELSE /\ pc' = "aborted"
                 /\ UNCHANGED deprecated_strings
    /\ scans' = scans + 1
    /\ UNCHANGED <<run_no, commits_and_dates, cache, index, tagged_commits,
                   fixmes, deprecated_files, save_return, diskVars, time_now,
                   last_flush, checkouts, flushes, inserted, loaded_size>>
    /\ UNCHANGED flameVars
    /\ UNCHANGED logVars

\* count_deprecated_files_here
CountDeprecatedFilesHere ==
    /\ pc = "count_deprecated_files_here"
    /\ \E r \in GrepRuns(3) :
         /\ result' = [cmd |-> "grep", returncode |-> r[1]]
         /\ IF ScanAsserts(r[1], r[2])
            THEN /\ deprecated_files' = CountLines(r[2])
                 /\ pc' = "store"
            ELSE /\ pc' = "aborted"
                 /\ UNCHANGED deprecated_files
    /\ scans' = scans + 1
    /\ UNCHANGED <<run_no, commits_and_dates, cache, index, tagged_commits,
                   fixmes, deprecated_strings, save_return, diskVars, time_now,
                   last_flush, checkouts, flushes, inserted, loaded_size>>
    /\ UNCHANGED flameVars
    /\ UNCHANGED logVars

\* cache[commit] = fixmes, deprecated_strings, deprecated_files, and the
\* test that decides whether save_cache is called.
Store ==
    /\ pc = "store"
    /\ cache' = StoreEntry(cache, CurCommit,
                            <<fixmes, deprecated_strings, deprecated_files>>)
    /\ inserted' = inserted + 1
    /\ IF SaveDue(cache')
       THEN /\ save_return' = "return"
            /\ pc' = "save_cache"
       ELSE /\ pc' = "return"
            /\ UNCHANGED save_return
    /\ UNCHANGED <<run_no, commits_and_dates, index, tagged_commits, localVars,
                   diskVars, time_now, last_flush, checkouts, scans, flushes,
                   loaded_size>>
    /\ UNCHANGED flameVars
    /\ UNCHANGED logVars

\* lookup_commit returns the dict of a computed commit.
ReturnComputed ==
    /\ pc = "return"
    /\ tagged_commits' = Append(tagged_commits,
         TaggedCommit(CurCommit, CurDate, fixmes, deprecated_strings,
                      deprecated_files))
    /\ index' = index + 1
    /\ pc' = "lookup_commit"
    /\ UNCHANGED <<run_no, commits_and_dates, cache, localVars, save_return,
                   diskVars, time_now, last_flush, historyVars>>
    /\ UNCHANGED flameVars
    /\ UNCHANGED logVars

\* Mutant of FinalSave: the cache is saved at the end only when its size
\* is a multiple of SAVE_CACHE_INV_FREQ.
FinalSave_IfDue ==
    /\ pc = "lookup_commit"
    /\ index > Len(commits_and_dates)
    /\ save_return' = "write_csv"
    /\ pc' = IF SaveDue(cache) THEN "save_cache" ELSE "write_csv"
    /\ UNCHANGED <<run_no, commits_and_dates, cache, index, tagged_commits,
                   localVars, diskVars, time_now, last_flush, historyVars>>
    /\ UNCHANGED flameVars
    /\ UNCHANGED logVars

\* run: the list comprehension is over; save_cache(cache).
FinalSave ==
    /\ pc = "lookup_commit"
    /\ index > Len(commits_and_dates)
    /\ save_return' = "write_csv"
    /\ pc' = "save_cache"
    /\ UNCHANGED <<run_no, commits_and_dates, cache, index, tagged_commits,
                   localVars, diskVars, time_now, last_flush, historyVars>>
    /\ UNCHANGED flameVars
    /\ UNCHANGED logVars

\* Mutant of WriteCsv: the CSV is opened with "a".
WriteCsv_Append ==
    /\ pc = "write_csv"
    /\ csv_file' = csv_file \o
           [k \in 1 .. Len(tagged_commits) |-> CsvLine(tagged_commits[k])]
    /\ pc' = "write_graphs"
    /\ UNCHANGED <<run_no, commits_and_dates, cache, index, tagged_commits,
                   localVars, save_return, live_file, cold_file, worktree,
                   time_now, last_flush, historyVars>>
    /\ UNCHANGED flameVars
    /\ UNCHANGED logVars

\* run: the CSV is opened with "w" and one line per entry is written.
WriteCsv ==
    /\ pc = "write_csv"
    /\ csv_file' = [k \in 1 .. Len(tagged_commits) |-> CsvLine(tagged_commits[k])]
    /\ pc' = "write_graphs"
    /\ UNCHANGED <<run_no, commits_and_dates, cache, index, tagged_commits,
                   localVars, save_return, live_file, cold_file, worktree,
                   time_now, last_flush, historyVars>>
    /\ UNCHANGED flameVars
    /\ UNCHANGED logVars

\* write_graphs up to the plot: the clock is read, gnuplot --version answers,
\* the week test only prints, the month and the year test print and raise
\* AssertionError.
WriteGraphs ==
    /\ pc = "write_graphs"
    /\ \E age \in CommitAges : time_now' = MostRecentCommit + age
    /\ events' = events \cup {"gnuplot --version"}
                   \cup (IF WithinLastWeek(MostRecentCommit, time_now')
                         THEN {} ELSE {"WARNING"})
                   \cup (IF WithinLastMonth(MostRecentCommit, time_now')
                         THEN IF WithinLastYear(MostRecentCommit, time_now')
                              THEN {} ELSE {"ERROR year"}
                         ELSE {"ERROR month"})
    /\ IF /\ WithinLastMonth(MostRecentCommit, time_now')
          /\ WithinLastYear(MostRecentCommit, time_now')
       THEN pc' = "gnuplot"
       ELSE pc' = "aborted"
    /\ UNCHANGED <<run_no, commits_and_dates, cache, index, tagged_commits,
                   localVars, save_return, diskVars, last_flush, historyVars>>
    /\ UNCHANGED <<loaded_from, prev_run>>
    /\ UNCHANGED flameVars

\* write_graphs: subprocess.check_output(['gnuplot', '--version']) raises.
GnuplotVersionFails ==
    /\ pc = "write_graphs"
    /\ \E age \in CommitAges : time_now' = MostRecentCommit + age
    /\ pc' = "aborted"
    /\ UNCHANGED <<run_no, commits_and_dates, cache, index, tagged_commits,
                   localVars, save_return, diskVars, last_flush, historyVars>>
    /\ UNCHANGED logVars
    /\ UNCHANGED flameVars

\* write_graphs: subprocess.run(["gnuplot", ...], check=True) succeeds.
Gnuplot ==
    /\ pc = "gnuplot"
    /\ events' = events \cup {"gnuplot"}
    /\ pc' = "generate_flame_graph"
    /\ UNCHANGED <<run_no, commits_and_dates, cache, index, tagged_commits,
                   localVars, save_return, diskVars, time_now, last_flush,
                   historyVars>>
    /\ UNCHANGED <<loaded_from, prev_run>>
    /\ UNCHANGED flameVars

\* write_graphs: the plot exits with a non-zero status, check=True raises.
GnuplotFails ==
    /\ pc = "gnuplot"
    /\ events' = events \cup {"gnuplot", "CalledProcessError"}
    /\ pc' = "aborted"
    /\ UNCHANGED <<run_no, commits_and_dates, cache, index, tagged_commits,
                   localVars, save_return, diskVars, time_now, last_flush,
                   historyVars>>
    /\ UNCHANGED <<loaded_from, prev_run>>
    /\ UNCHANGED flameVars

\* run: generate_flame_graph() is called and returns (SpecFlame follows it
\* step by step).
GenerateFlameGraph ==
    /\ pc = "generate_flame_graph"
    /\ events' = events \cup {"generate_flame_graph"}
    /\ pc' = "done"
    /\ UNCHANGED <<run_no, commits_and_dates, cache, index, tagged_commits,
                   localVars, save_return, diskVars, time_now, last_flush,
                   historyVars>>
    /\ UNCHANGED <<loaded_from, prev_run>>
    /\ UNCHANGED flameVars

\* The process is killed.
Kill ==
    /\ pc \notin {"done", "aborted", "killed"}
    /\ pc' = "killed"
    /\ UNCHANGED <<run_no, commits_and_dates, cache, index, tagged_commits,
                   localVars, save_return, diskVars, time_now, last_flush,
                   historyVars>>
    /\ UNCHANGED flameVars
    /\ UNCHANGED logVars

\* The script is started again: the remote may have gained a commit, the
\* files and the working tree are as the last process left them.
Restart ==
    /\ pc \in {"done", "aborted", "killed"}
    /\ run_no < MaxRuns
    /\ run_no' = run_no + 1
    /\ \E n \in {Len(commits_and_dates), Len(commits_and_dates) + 1} :
         /\ n <= NumCommits
         /\ commits_and_dates' = determine_commit_and_date_list(n)
    /\ pc' = "load_cache"
    /\ cache' = EmptyCache
    /\ index' = 1
    /\ tagged_commits' = <<>>
    /\ fixmes' = Unbound
    /\ deprecated_strings' = Unbound
    /\ deprecated_files' = Unbound
    /\ result' = NoResult
    /\ save_return' = "none"
    /\ time_now' = 0
    /\ last_flush' = live_file
    /\ checkouts' = 0
    /\ scans' = 0
    /\ flushes' = 0
    /\ inserted' = 0
    /\ loaded_size' = 0
    /\ loaded_from' = "none"
    /\ events' = {}
    /\ prev_run' = [outcome |-> pc, commits_and_dates |-> commits_and_dates,
                    live_file |-> live_file, csv_file |-> csv_file]
    /\ UNCHANGED diskVars
    /\ UNCHANGED flameVars

Next ==
    \/ LoadLive
    \/ LoadCold
    \/ SaveOpen
    \/ SaveWrite
    \/ SaveClose
    \/ LookupHit
    \/ LookupMiss
    \/ Checkout
    \/ CheckoutFails
    \/ CountFixmesHere
    \/ CountDeprecatedStringsHere
    \/ CountDeprecatedFilesHere
    \/ Store
    \/ ReturnComputed
    \/ FinalSave
    \/ WriteCsv
    \/ WriteGraphs
    \/ GnuplotVersionFails
    \/ Gnuplot
    \/ GnuplotFails
    \/ GenerateFlameGraph
    \/ Kill
    \/ Restart

Spec == Init /\ [][Next]_vars

\* ------------------------------------------------------------------------
\* generate_flame_graph
\* ------------------------------------------------------------------------
\* The file and the directory the loops of the walk are at.
CurFile == walk[1].files[1]
CurFullName == Append(walk[1].root, CurFile)
CurDir == walk[1].dirs[1]

\* The walk with the file, or the directory, it is at done.
FileDone == [walk EXCEPT ![1].files = Tail(@)]
DirDone == [walk EXCEPT ![1].dirs = Tail(@)]

\* The loop over files is at a file.
AtFile == pc = "os_walk" /\ walk # <<>> /\ walk[1].files # <<>>

\* The loop over dirs is at a directory.
AtDir == pc = "os_walk" /\ walk # <<>> /\ walk[1].files = <<>> /\ walk[1].dirs # <<>>

\* get_node(full_name) for the file the walk is at.
FileNode == get_node(flamegraph, <<>>, NormSplit(CurFullName))

\* get_node(os.path.join(root, name)) for the directory the walk is at.
DirNode == get_node(flamegraph, <<>>, NormSplit(Append(walk[1].root, CurDir)))

\* The loop over the lines of the file the walk is at.
FileScan == ScanLines(tree.files[NormSplit(CurFullName)], 0, 0)

InitFlame ==
    /\ pc = "generate_flame_graph"
    /\ tree \in Trees
    /\ scandir_reversed \in BOOLEAN
    /\ flamegraph = [q \in {<<>>} |-> NewNode(".")]
    /\ walk = <<>>
    /\ ratios_list = <<>>
    /\ todo_graph = NoFile
    /\ loc_graph = NoFile
    /\ ratio_csv = NoFile
    /\ opened = {}
    /\ run_no = 1
    /\ commits_and_dates = determine_commit_and_date_list(1)
    /\ cache = CacheOfPrefix(1)
    /\ index = 2
    /\ tagged_commits = <<>>
    /\ fixmes = Unbound
    /\ deprecated_strings = Unbound
    /\ deprecated_files = Unbound
    /\ save_return = "write_csv"
    /\ live_file = JsonFile(cache)
    /\ cold_file = JsonFile(EmptyCache)
    /\ csv_file = CsvOfPrefix(1)
    /\ worktree = 1
    /\ result = NoResult
    /\ time_now = CommitDate(1) + 1
    /\ last_flush = live_file
    /\ checkouts = 0
    /\ scans = 0
    /\ flushes = 1
    /\ inserted = 0
    /\ loaded_size = 1
    /\ loaded_from = "live"
    /\ events = {"gnuplot --version", "gnuplot"}
    /\ prev_run = [outcome |-> "none", commits_and_dates |-> <<>>,
                   live_file |-> live_file, csv_file |-> csv_file]

\* flamegraph = Node(name=".", children=[]); os.walk(".", topdown=False)
StartWalk ==
    /\ pc = "generate_flame_graph"
    /\ flamegraph' = [q \in {<<>>} |-> NewNode(".")]
    /\ walk' = OsWalk(tree, scandir_reversed, <<>>)
    /\ ratios_list' = <<>>
    /\ pc' = "os_walk"
    /\ UNCHANGED <<tree, scandir_reversed, todo_graph, loc_graph, ratio_csv,
                   opened, runVars>>

\* The name ends with none of the extensions: continue.
SkipByExtension ==
    /\ AtFile
    /\ ~HasScannedExtension(CurFile)
    /\ walk' = FileDone
    /\ UNCHANGED <<pc, tree, scandir_reversed, flamegraph, ratios_list,
                   todo_graph, loc_graph, ratio_csv, opened, runVars>>

\* The full name is one of the two fixture files: continue.
SkipByFullName ==
    /\ AtFile
    /\ HasScannedExtension(CurFile)
    /\ CurFullName \in SkippedFullNames
    /\ walk' = FileDone
    /\ UNCHANGED <<pc, tree, scandir_reversed, flamegraph, ratios_list,
                   todo_graph, loc_graph, ratio_csv, opened, runVars>>

\* get_node returns None for the file: continue.
SkipFileWithoutNode ==
    /\ AtFile
    /\ HasScannedExtension(CurFile)
    /\ CurFullName \notin SkippedFullNames
    /\ ~FileNode.found
    /\ flamegraph' = FileNode.graph
    /\ walk' = FileDone
    /\ UNCHANGED <<pc, tree, scandir_reversed, ratios_list, todo_graph,
                   loc_graph, ratio_csv, opened, runVars>>

\* The file is opened and reading it raises UnicodeDecodeError: continue.
ScanUndecodable ==
    /\ AtFile
    /\ HasScannedExtension(CurFile)
    /\ CurFullName \notin SkippedFullNames
    /\ FileNode.found
    /\ ~FileScan.decoded
    /\ flamegraph' = FileNode.graph
    /\ opened' = opened \cup {NormSplit(CurFullName)}
    /\ walk' = FileDone
    /\ UNCHANGED <<pc, tree, scandir_reversed, ratios_list, todo_graph,
                   loc_graph, ratio_csv, runVars>>

\* The file is read to its end: node.todos, node.locs and ratios_list.
ScanFile ==
    /\ AtFile
    /\ HasScannedExtension(CurFile)
    /\ CurFullName \notin SkippedFullNames
    /\ FileNode.found
    /\ FileScan.decoded
    /\ flamegraph' = [FileNode.graph EXCEPT
                        ![FileNode.node].todos = FileScan.todos,
                        ![FileNode.node].locs = FileScan.locs]
    /\ opened' = opened \cup {NormSplit(CurFullName)}
    /\ ratios_list' =
         IF FileScan.todos # 0 /\ FileScan.locs # 0
         THEN Append(ratios_list,
                     <<FileScan.todos, FileScan.locs,
                       <<FileScan.todos, FileScan.locs>>,
                       IF Head(CurFullName) = "." THEN Tail(CurFullName)
                       ELSE CurFullName>>)
         ELSE ratios_list
    /\ walk' = FileDone
    /\ UNCHANGED <<pc, tree, scandir_reversed, todo_graph, loc_graph,
                   ratio_csv, runVars>>

\* get_node returns None for the directory: continue.
SkipDirWithoutNode ==
    /\ AtDir
    /\ ~DirNode.found
    /\ flamegraph' = DirNode.graph
    /\ walk' = DirDone
    /\ UNCHANGED <<pc, tree, scandir_reversed, ratios_list, todo_graph,
                   loc_graph, ratio_csv, opened, runVars>>

\* node.todos and node.locs of the directory are the sums over its children.
AggregateDir ==
    /\ AtDir
    /\ DirNode.found
    /\ flamegraph' = [DirNode.graph EXCEPT
         ![DirNode.node].todos =
             SumChildren(DirNode.graph, DirNode.node,
                         DirNode.graph[DirNode.node].children, "todos"),
         ![DirNode.node].locs =
             SumChildren(DirNode.graph, DirNode.node,
                         DirNode.graph[DirNode.node].children, "locs")]
    /\ walk' = DirDone
    /\ UNCHANGED <<pc, tree, scandir_reversed, ratios_list, todo_graph,
                   loc_graph, ratio_csv, opened, runVars>>

\* Both loops over a tuple are over: os.walk yields the next one.
NextTuple ==
    /\ pc = "os_walk"
    /\ walk # <<>>
    /\ walk[1].files = <<>>
    /\ walk[1].dirs = <<>>
    /\ walk' = Tail(walk)
    /\ UNCHANGED <<pc, tree, scandir_reversed, flamegraph, ratios_list,
                   todo_graph, loc_graph, ratio_csv, opened, runVars>>

\* The walk is over: todo.json, loc.json and ratio.csv are written.
WriteOutputs ==
    /\ pc = "os_walk"
    /\ walk = <<>>
    /\ todo_graph' = set_value("todos", flamegraph, <<>>)
    /\ loc_graph' = set_value("locs", flamegraph, <<>>)
    /\ ratio_csv' = [k \in 1 .. Len(ratios_list) |-> RatioLine(ratios_list[k])]
    /\ pc' = "flame_done"
    /\ UNCHANGED <<tree, scandir_reversed, flamegraph, walk, ratios_list,
                   opened, runVars>>

NextFlame ==
    \/ StartWalk
    \/ SkipByExtension
    \/ SkipByFullName
    \/ SkipFileWithoutNode
    \/ ScanUndecodable
    \/ ScanFile
    \/ SkipDirWithoutNode
    \/ AggregateDir
    \/ NextTuple
    \/ WriteOutputs

SpecFlame == InitFlame /\ [][NextFlame]_vars

\* ------------------------------------------------------------------------
\* Properties of the commit metric cache
\* ------------------------------------------------------------------------
\* The process runs and load_cache has returned.
LoadReturned ==
    /\ pc \notin {"load_cache", "done", "aborted", "killed"}
    /\ ~(pc \in {"save_cache", "json_dump"} /\ save_return = "lookup_commit")

\* The entries of the in-memory cache the live file does not hold.
Unflushed == DOMAIN cache \ FileKeys(live_file)

\* lookup_commit is on the path of a commit it did not find in the cache.
OnMissPath ==
    pc \in {"checkout", "count_fixmes_here", "count_deprecated_strings_here",
            "count_deprecated_files_here", "store"}

\* The last subprocess of lookup_commit failed: the checkout did not exit
\* with 0, or the search tool exited with a status outside {0, 1}.
ToolFailed ==
    \/ result.cmd = "checkout" /\ result.returncode # 0
    \/ result.cmd = "grep" /\ result.returncode \notin {0, 1}

\* Some row of rows is a row of the commit.
HasRowOf(rows, commit) == \E k \in 1 .. Len(rows) : rows[k].commit = commit

\* C1: whenever the process has been killed, the live cache file holds
\* exactly what the last completed flush wrote (or what it held at startup),
\* and it is not a partially written file.
C1_KillLeavesLastFlush ==
    pc = "killed" =>
        /\ live_file = last_flush
        /\ live_file.exists => live_file.complete

\* C2: each of the three counts equals the number of matching lines the
\* search tool printed for the working tree (0 when it printed nothing).
C2_CountIsMatchingLines ==
    /\ pc = "count_deprecated_strings_here" => fixmes = TreeMatches(worktree, 1)
    /\ pc = "count_deprecated_files_here" =>
           deprecated_strings = TreeMatches(worktree, 2)
    /\ pc = "store" => deprecated_files = TreeMatches(worktree, 3)

\* C3: a lookup_commit of a commit that is a key of the cache returns the
\* stored triple in that one step, with no checkout, no scan, no change of
\* the cache and no write to the live file.
C3_HitHasNoSideEffect ==
    [][(/\ pc = "lookup_commit"
        /\ index <= Len(commits_and_dates)
        /\ CurCommit \in DOMAIN cache
        /\ pc' # "killed")
       => /\ pc' = "lookup_commit"
          /\ index' = index + 1
          /\ tagged_commits' = Append(tagged_commits,
               TaggedCommit(CurCommit, CurDate, cache[CurCommit][1],
                            cache[CurCommit][2], cache[CurCommit][3]))
          /\ worktree' = worktree
          /\ cache' = cache
          /\ live_file' = live_file
          /\ checkouts' = checkouts
          /\ scans' = scans
          /\ flushes' = flushes]_vars

\* A hit was served: a row was returned although nothing was checked out.
C3_Witness ==
    /\ pc = "lookup_commit"
    /\ Len(tagged_commits) >= 2
    /\ checkouts = 0

\* C4: within a run the in-memory cache only grows: no step removes a key
\* or changes the triple stored under a key.
C4_CacheOnlyGrows ==
    [][run_no' = run_no =>
         \A c \in DOMAIN cache : c \in DOMAIN cache' /\ cache'[c] = cache[c]]_vars

\* Two entries were added to a cache that was loaded with entries.
C4_Witness ==
    /\ loaded_size >= 1
    /\ inserted >= 2
    /\ Cardinality(DOMAIN cache) = loaded_size + inserted

\* C5: on the path of a cache miss the commit is in neither the cache, the
\* live file nor the rows; when the checkout or a scan fails the run is
\* aborted at once and the commit is still in none of them, nor in the CSV;
\* an aborted run does nothing more; every stored triple is complete.
C5_FailedMissStoresNothing ==
    /\ [](OnMissPath =>
            /\ CurCommit \notin DOMAIN cache
            /\ CurCommit \notin FileKeys(live_file)
            /\ ~HasRowOf(tagged_commits, CurCommit))
    /\ [](ToolFailed =>
            /\ pc = "aborted"
            /\ CurCommit \notin DOMAIN cache
            /\ CurCommit \notin FileKeys(live_file)
            /\ ~HasRowOf(tagged_commits, CurCommit)
            /\ \A k \in 1 .. Len(csv_file) : csv_file[k][1] # CurDate)
    /\ [](\A c \in DOMAIN cache : \A m \in 1 .. 3 : cache[c][m] # Unbound)
    /\ [][pc = "aborted" => run_no' = run_no + 1]_vars

\* A run was aborted by a failing scan after an earlier scan had succeeded.
C5_Witness ==
    /\ pc = "aborted"
    /\ result.cmd = "grep"
    /\ result.returncode = 2
    /\ fixmes # Unbound

\* C6 as claimed: the flush follows the N-th, 2N-th, ... insertion of the
\* run: when lookup_commit returns a computed commit, the live file holds
\* it exactly if the number of insertions of the run is a multiple of N.
C6_FlushEveryNInsertionsOfRun ==
    pc = "return" =>
        ((inserted % SAVE_CACHE_INV_FREQ = 0) <=> live_file = JsonFile(cache))

\* C6 as amended: the flush follows each insertion that brings the number of
\* entries of the cache (loaded plus inserted) to a multiple of N.
C6_FlushEveryNEntriesOfCache ==
    pc = "return" =>
        /\ ((loaded_size + inserted) % SAVE_CACHE_INV_FREQ = 0)
               <=> live_file = JsonFile(cache)
        /\ ((loaded_size + inserted) % SAVE_CACHE_INV_FREQ # 0)
               <=> CurCommit \notin FileKeys(live_file)

\* A flush followed the first insertion of a run that loaded an odd number
\* of entries.
C6_Witness ==
    /\ pc = "return"
    /\ inserted = 1
    /\ loaded_size % SAVE_CACHE_INV_FREQ = SAVE_CACHE_INV_FREQ - 1
    /\ live_file = JsonFile(cache)

\* C7: once load_cache has returned, at most N-1 entries of the in-memory
\* cache are absent from the live file.
C7_AtMostNMinus1Unflushed ==
    LoadReturned => Cardinality(Unflushed) <= SAVE_CACHE_INV_FREQ - 1

\* C8: when the CSV is about to be written, the cache has been flushed
\* whatever its size: the live file is the dump of the in-memory cache and
\* holds an entry for every enumerated commit.
C8_FinalFlushBeforeCsv ==
    pc = "write_csv" =>
        /\ live_file = JsonFile(cache)
        /\ JsonValid(live_file)
        /\ JsonLoad(live_file) = cache
        /\ last_flush = live_file
        /\ \A k \in 1 .. Len(commits_and_dates) :
             commits_and_dates[k][1] \in FileKeys(live_file)

\* The walk ended with a cache whose size is no multiple of N and which
\* holds an entry computed after the last automatic flush.
C8_Witness ==
    /\ pc = "write_csv"
    /\ inserted >= 1
    /\ Cardinality(DOMAIN cache) % SAVE_CACHE_INV_FREQ # 0

\* ------------------------------------------------------------------------
\* Properties of the aggregation tree builder
\* ------------------------------------------------------------------------
\* p is the path q or a path above it.
IsPrefix(p, q) == Len(p) <= Len(q) /\ SubSeq(q, 1, Len(p)) = p

\* The nodes of directories (the root is the directory ".").
DirectoryNodes == {p \in DOMAIN flamegraph : p = <<>> \/ p \in tree.dirs}

\* The nodes of the files at or below p.
LeafFiles(p) == {f \in DOMAIN flamegraph : f \in DOMAIN tree.files /\ IsPrefix(p, f)}

RECURSIVE SumOfNodes(_, _)
SumOfNodes(S, field) ==
    IF S = {} THEN 0
    ELSE LET f == CHOOSE x \in S : TRUE
         IN flamegraph[f][field] + SumOfNodes(S \ {f}, field)

RECURSIVE Listed(_, _)
\* The serialized tree `out` lists the node of path p: each segment of p is
\* the name of an entry of the children of the one before.
Listed(out, p) ==
    \/ p = <<>>
    \/ /\ "children" \in DOMAIN out
       /\ \E k \in 1 .. Len(out.children) :
            /\ out.children[k].name = Head(p)
            /\ Listed(out.children[k], Tail(p))

\* The directory d of the tree holds no directory, and only files whose
\* value is zero (or that were given no node).
HoldsOnlyZeroFiles(d, field) ==
    /\ \A e \in tree.dirs : Parent(e) # d
    /\ \A f \in DOMAIN tree.files :
         (Parent(f) = d /\ f \in DOMAIN flamegraph) => flamegraph[f][field] = 0

\* C10 for one projection.
PrunedProjection(out, field) ==
    /\ out.name = "."
    /\ out.value = flamegraph[<<>>][field]
    /\ \A p \in DOMAIN flamegraph \ {<<>>} :
         Listed(out, p) <=>
            \/ flamegraph[p][field] # 0
            \/ \E k \in 1 .. Len(flamegraph[p].children) :
                 Listed(out, Append(p, flamegraph[p].children[k]))
    /\ \A d \in DirectoryNodes \ {<<>>} :
         HoldsOnlyZeroFiles(d, field) => ~Listed(out, d)
    /\ \A f \in LeafFiles(<<>>) :
         flamegraph[f][field] # 0 =>
            \A k \in 1 .. Len(f) : Listed(out, SubSeq(f, 1, k))

\* C9: after the walk, the pending-work value and the line count of every
\* directory node, the root included, are the sums over the leaf files of
\* its subtree.
C9_DirectoryIsSumOfLeaves ==
    pc = "flame_done" =>
        \A d \in DirectoryNodes :
            /\ flamegraph[d].todos = SumOfNodes(LeafFiles(d), "todos")
            /\ flamegraph[d].locs = SumOfNodes(LeafFiles(d), "locs")

\* C10: in both serialized trees the root is emitted, a node other than the
\* root is listed exactly if its value is nonzero or one of its children is
\* listed, a directory holding only zero-valued files is not listed, and
\* every node on the path to a file of nonzero value is listed.
C10_PrunedTrees ==
    pc = "flame_done" =>
        /\ PrunedProjection(todo_graph, "todos")
        /\ PrunedProjection(loc_graph, "locs")

\* A file three levels deep has pending work and no line of code: the
\* pending-work tree lists it, the line-count tree drops its directory.
C10_Witness ==
    /\ pc = "flame_done"
    /\ <<"Lib", "Web", "c.js">> \in DOMAIN flamegraph
    /\ Listed(todo_graph, <<"Lib", "Web", "c.js">>)
    /\ flamegraph[<<"Lib", "Web", "c.js">>].locs = 0
    /\ ~Listed(loc_graph, <<"Lib", "Web">>)
    /\ Listed(loc_graph, <<"Lib">>)

\* ------------------------------------------------------------------------
\* The CSV, repeated runs and load_cache.

\* run has written the CSV in this process.
CsvWritten == pc \in {"write_graphs", "gnuplot", "generate_flame_graph", "done"}

\* The row of the k-th enumerated commit, from the date of the list and the
\* triple the cache holds for the commit.
RowFromCache(k) ==
    <<commits_and_dates[k][2], cache[commits_and_dates[k][1]][1],
      cache[commits_and_dates[k][1]][2], cache[commits_and_dates[k][1]][3]>>

\* C11: once run has written the CSV, the CSV holds exactly one row per
\* enumerated commit, in the order of the list, each row being the date of
\* the commit and the three counts the cache holds for it; nothing of what
\* the CSV held before is left.
C11_CsvIsOneRowPerCommit ==
    CsvWritten =>
        /\ Len(csv_file) = Len(commits_and_dates)
        /\ \A k \in 1 .. Len(commits_and_dates) :
             /\ commits_and_dates[k][1] \in DOMAIN cache
             /\ csv_file[k] = RowFromCache(k)

\* A CSV has just been written by a run that found an older, shorter CSV and
\* served one commit from the cache and computed another.
C11_Witness ==
    /\ pc = "write_graphs"
    /\ run_no = 2
    /\ 0 < Len(prev_run.csv_file)
    /\ Len(prev_run.csv_file) < Len(csv_file)
    /\ loaded_size > 0
    /\ inserted > 0

\* The previous run completed and this run enumerates the same list.
RerunOfCompletedRun ==
    /\ prev_run.outcome = "done"
    /\ prev_run.commits_and_dates = commits_and_dates

\* save_cache is not between open and close.
NotInSave == pc \notin {"save_cache", "json_dump", "killed"}

\* C12: in a run that follows a completed run and enumerates the same list,
\* no checkout and no scan is made, the CSV always equals the one the first
\* run wrote, and outside save_cache the live cache file holds what the first
\* run left, which is also what a dump of the in-memory cache gives.
C12_RerunIsIdempotent ==
    RerunOfCompletedRun =>
        /\ checkouts = 0
        /\ scans = 0
        /\ result = NoResult
        /\ csv_file = prev_run.csv_file
        /\ NotInSave => live_file = prev_run.live_file
        /\ LoadReturned => JsonFile(cache) = prev_run.live_file

\* The second run over the same list has completed.
C12_Witness ==
    /\ RerunOfCompletedRun
    /\ pc = "done"
    /\ flushes = 1
    /\ Len(csv_file) > 1

\* load_cache returns in this step.
LoadCacheReturns ==
    /\ pc' = "lookup_commit"
    /\ \/ pc = "load_cache"
       \/ pc = "json_dump" /\ save_return = "lookup_commit"

\* What a single step does to the cold file and around the return of
\* load_cache.
C13_Step ==
    /\ cold_file' = cold_file
    /\ (pc = "load_cache" /\ pc' \notin {"load_cache", "killed"}) =>
          /\ live_file.exists => loaded_from' = "live" /\ live_file' = live_file
          /\ ~live_file.exists => loaded_from' = "cold" /\ pc' = "save_cache"
          /\ checkouts' = 0 /\ scans' = 0
    /\ LoadCacheReturns =>
          /\ live_file'.exists
          /\ JsonValid(live_file')
          /\ JsonLoad(live_file') = cache'
          /\ checkouts' = 0
          /\ scans' = 0
          /\ worktree' = worktree
          /\ loaded_from' = "live" =>
                /\ live_file' = last_flush
                /\ flushes' = 0
          /\ loaded_from' = "cold" =>
                /\ cache' = JsonLoad(cold_file)
                /\ ~last_flush.exists
                /\ flushes' = 1

\* C13: load_cache reads the live file when it exists and the cold file
\* otherwise; when it returns, the live file exists and holds exactly the
\* returned cache, no checkout and no scan has been made, a cache that came
\* from the cold file has been written out as the live file, and no step
\* ever writes the cold file.
C13_LoadCacheLeavesLiveFile == [][C13_Step]_vars

\* load_cache has just returned a cache it read from the cold file, with at
\* least one entry, and the live file it created holds it.
C13_Witness ==
    /\ pc = "lookup_commit"
    /\ index = 1
    /\ loaded_from = "cold"
    /\ flushes = 1
    /\ loaded_size > 0
    /\ JsonLoad(live_file) = cache

\* The triple a file holds under a key.
FileTriple(file, c) == JsonLoad(file)[c]

\* C14: when a run has completed or aborted, and the run before it was not
\* killed, the live cache file holds every key it held at the end of the run
\* before (at startup, for the first run), with the same triple.
C14_DurableCacheOnlyGrows ==
    (pc \in {"done", "aborted"} /\ prev_run.outcome # "killed") =>
        /\ FileKeys(prev_run.live_file) \subseteq FileKeys(live_file)
        /\ \A c \in FileKeys(prev_run.live_file) :
             FileTriple(live_file, c) = FileTriple(prev_run.live_file, c)

\* A run that aborted after a flush follows a run that aborted, and the live
\* file has gained keys and kept the ones it had.
C14_Witness ==
    /\ pc = "aborted"
    /\ prev_run.outcome = "aborted"
    /\ ToolFailed
    /\ flushes > 0
    /\ FileKeys(prev_run.live_file) # {}
    /\ FileKeys(prev_run.live_file) # FileKeys(live_file)

\* ------------------------------------------------------------------------
\* Excluded directories and undecodable files in the aggregation walk.

\* Some segment of the path is .git or .devcontainer.
Excluded(p) == \E k \in 1 .. Len(p) : p[k] \in {".git", ".devcontainer"}

\* Some line of the content is no UTF-8.
HasBadLine(content) == \E k \in 1 .. Len(content) : Undecodable(content[k])

\* The files of the tree the walk is to open: scanned extension, not one of
\* the skipped full names, outside the excluded directories.
ScannedFiles ==
    {f \in DOMAIN tree.files :
        /\ HasScannedExtension(f[Len(f)])
        /\ <<".">> \o f \notin SkippedFullNames
        /\ ~Excluded(f)}

\* What a file is to contribute: its counts when it is scanned and decodes,
\* zero otherwise.
ExpectedCount(f, field) ==
    IF f \in ScannedFiles /\ ~HasBadLine(tree.files[f])
    THEN ScanLines(tree.files[f], 0, 0)[field]
    ELSE 0

RECURSIVE SumExpected(_, _)
SumExpected(S, field) ==
    IF S = {} THEN 0
    ELSE LET f == CHOOSE x \in S : TRUE
         IN ExpectedCount(f, field) + SumExpected(S \ {f}, field)

\* The files of the tree at or below d, those of excluded directories left out.
FilesBelow(d) == {f \in DOMAIN tree.files : IsPrefix(d, f) /\ ~Excluded(f)}

\* The ranked list has an entry for the file.
Ranked(f) == \E k \in 1 .. Len(ratios_list) : ratios_list[k][4] = f

\* C15: no path with a segment .git or .devcontainer is ever opened, given a
\* node or put on the ranked list; after the walk neither serialized tree
\* nor ratio.csv lists such a path, and the values of every directory node
\* below the root are the sums over the files outside those directories.
C15_ExcludedDirectoriesAreSkipped ==
    /\ \A p \in opened \cup DOMAIN flamegraph : ~Excluded(p)
    /\ \A k \in 1 .. Len(ratios_list) : ~Excluded(ratios_list[k][4])
    /\ pc = "flame_done" =>
         /\ \A p \in tree.dirs \cup DOMAIN tree.files :
              Excluded(p) => ~Listed(todo_graph, p) /\ ~Listed(loc_graph, p)
         /\ \A k \in 1 .. Len(ratio_csv) : ~Excluded(ratio_csv[k][4])
         /\ \A d \in DirectoryNodes \ {<<>>} :
              /\ flamegraph[d].todos = SumExpected(FilesBelow(d), "todos")
              /\ flamegraph[d].locs = SumExpected(FilesBelow(d), "locs")

\* The walk is over a tree with a file in .git and one in Lib/.devcontainer,
\* and Lib has a value that comes from its scanned file.
C15_Witness ==
    /\ pc = "flame_done"
    /\ <<".git", "a.h">> \in DOMAIN tree.files
    /\ <<"Lib", ".devcontainer", "a.h">> \in DOMAIN tree.files
    /\ <<"Lib", "b.cpp">> \in opened
    /\ flamegraph[<<"Lib">>].todos > 0
    /\ flamegraph[<<"Lib">>].locs > 0

\* C18: a file that was opened and has a line that does not decode has a
\* node with both counts zero and no entry in the ranked list, and the walk
\* goes on: at its end every file to scan has been opened, every file node
\* holds the counts of a file that decodes or zero, the ranked list holds
\* exactly the files with both counts nonzero, and every directory node
\* below the root holds the sums with the undecodable files counted as zero.
C18_UndecodableFileCountsZero ==
    /\ \A f \in opened :
         HasBadLine(tree.files[f]) =>
            /\ f \in DOMAIN flamegraph
            /\ flamegraph[f].todos = 0
            /\ flamegraph[f].locs = 0
            /\ ~Ranked(f)
            /\ pc \in {"os_walk", "flame_done"}
    /\ pc = "flame_done" =>
         /\ \A f \in ScannedFiles :
              /\ f \in opened
              /\ flamegraph[f].todos = ExpectedCount(f, "todos")
              /\ flamegraph[f].locs = ExpectedCount(f, "locs")
              /\ Ranked(f) <=>
                   (ExpectedCount(f, "todos") # 0 /\ ExpectedCount(f, "locs") # 0)
         /\ \A d \in DirectoryNodes \ {<<>>} :
              /\ flamegraph[d].todos =
                   SumExpected({f \in FilesBelow(d) : ~HasBadLine(tree.files[f])}, "todos")
              /\ flamegraph[d].locs =
                   SumExpected({f \in FilesBelow(d) : ~HasBadLine(tree.files[f])}, "locs")

\* Lib/Web/c.js counted one marker and one line before the line that does
\* not decode; the walk went on to Lib/b.cpp, which is ranked, and Lib holds
\* the counts of b.cpp alone.
C18_Witness ==
    /\ pc = "flame_done"
    /\ <<"Lib", "Web", "c.js">> \in opened
    /\ HasBadLine(tree.files[<<"Lib", "Web", "c.js">>])
    /\ ScanLines_KeepPartial(tree.files[<<"Lib", "Web", "c.js">>], 0, 0).todos > 0
    /\ <<"Lib", "b.cpp">> \in opened
    /\ Ranked(<<"Lib", "b.cpp">>)
    /\ flamegraph[<<"Lib">>].todos = flamegraph[<<"Lib", "b.cpp">>].todos
    /\ flamegraph[<<"Lib", "Web">>].todos = 0

\* ------------------------------------------------------------------------
\* The staleness tests, the working tree and the order of the insertions.

\* Days between the newest commit and the clock write_graphs read.
DaysOld == time_now - MostRecentCommit

\* write_graphs got past gnuplot --version, so the three tests were made.
StalenessTested == "gnuplot --version" \in events

\* C16: once write_graphs has made its tests, a newest commit that is 31 days
\* old or more (or 366 or more) has ended the run with an error message, the
\* plot not run and generate_flame_graph not called; a newest commit between
\* 7 and 30 days old has only brought a warning: no error message, the run
\* ends early only if the plot itself fails, and a run that is done has run
\* the plot and generate_flame_graph; a younger commit brings no message.
C16_StalenessTests ==
    StalenessTested =>
        /\ (DaysOld >= 31 \/ DaysOld >= 366) =>
              /\ pc = "aborted"
              /\ "ERROR month" \in events \/ "ERROR year" \in events
              /\ "gnuplot" \notin events
              /\ "generate_flame_graph" \notin events
              /\ todo_graph = NoFile /\ loc_graph = NoFile /\ ratio_csv = NoFile
        /\ (DaysOld < 31 /\ DaysOld < 366) =>
              /\ "ERROR month" \notin events /\ "ERROR year" \notin events
              /\ "WARNING" \in events <=> DaysOld >= 7
              /\ pc \in {"gnuplot", "generate_flame_graph", "done", "aborted", "killed"}
              /\ pc = "aborted" => "CalledProcessError" \in events
              /\ pc \in {"generate_flame_graph", "done"} => "gnuplot" \in events
              /\ pc = "done" => "generate_flame_graph" \in events

\* The newest commit is exactly 31 days old and the run has ended in the
\* month test, after the CSV was written.
C16_Witness ==
    /\ StalenessTested
    /\ DaysOld = 31
    /\ pc = "aborted"
    /\ "WARNING" \in events
    /\ "ERROR month" \in events
    /\ Len(csv_file) = Len(commits_and_dates)

\* The commit at position index of the list.
CommitAt(k) == commits_and_dates[k][1]

\* C17: from the checkout of a missed commit to the insertion of its entry
\* the working tree is at that commit, exactly one checkout has been made
\* for it and the scans made so far are its own; the counts held when the
\* entry is stored are the results of the three scans of that commit's
\* tree, and so is every triple the cache holds.
C17_EntryComesFromItsOwnTree ==
    /\ pc \in {"count_fixmes_here", "count_deprecated_strings_here",
               "count_deprecated_files_here", "store"} =>
          /\ worktree = CommitAt(index)
          /\ checkouts = inserted + 1
          /\ CommitAt(index) \notin DOMAIN cache
    /\ pc = "count_fixmes_here" => scans = 3 * inserted
    /\ pc = "count_deprecated_strings_here" =>
          /\ scans = 3 * inserted + 1
          /\ fixmes = ScannedTriple(CommitAt(index))[1]
    /\ pc = "count_deprecated_files_here" =>
          /\ scans = 3 * inserted + 2
          /\ <<fixmes, deprecated_strings>> =
                <<ScannedTriple(CommitAt(index))[1], ScannedTriple(CommitAt(index))[2]>>
    /\ pc = "store" =>
          /\ scans = 3 * inserted + 3
          /\ <<fixmes, deprecated_strings, deprecated_files>> =
                ScannedTriple(CommitAt(index))
    /\ \A c \in DOMAIN cache : cache[c] = ScannedTriple(c)

\* The second entry of a run has been stored, the tree still at its commit,
\* after a first commit was served from the cache.
C17_Witness ==
    /\ pc = "return"
    /\ inserted = 2
    /\ loaded_size > 0
    /\ worktree = CommitAt(index)
    /\ cache[CommitAt(index)] # cache[CommitAt(index - 1)]

\* C19: when generate_flame_graph is about to be called, the working tree is
\* at the newest commit of the enumerated list.
C19_FlameGraphOfNewestCommit ==
    pc = "generate_flame_graph" => worktree = CommitAt(Len(commits_and_dates))

\* What a single step that moves the list position, makes a checkout or
\* inserts an entry must satisfy.
C20_Step ==
    /\ (run_no' = run_no) => index' \in {index, index + 1}
    /\ (checkouts' = checkouts + 1) =>
          /\ pc = "checkout"
          /\ worktree' = CommitAt(index)
          /\ checkouts = inserted
          /\ scans = 3 * inserted
          /\ CommitAt(index) \notin DOMAIN cache
          /\ \A k \in 1 .. index - 1 : CommitAt(k) \in DOMAIN cache
    /\ (inserted' = inserted + 1) =>
          /\ checkouts = inserted + 1
          /\ scans = 3 * checkouts
          /\ worktree = CommitAt(index)
          /\ DOMAIN cache' = DOMAIN cache \cup {CommitAt(index)}
          /\ \A k \in 1 .. index - 1 : CommitAt(k) \in DOMAIN cache

\* C20: the list is walked forward; a checkout starts only when every
\* checkout made before it in the run has had its three scans and its entry
\* inserted and every commit before it in the list has an entry; an entry is
\* inserted for the commit the list is at, whose checkout is the last made.
C20_InsertionsFollowTheList == [][C20_Step]_vars

\* The checkout of the third missed commit of a run has been made: the two
\* before it have their entries.
C20_Witness ==
    /\ pc = "count_fixmes_here"
    /\ checkouts = 3
    /\ inserted = 2
    /\ loaded_size = 0
    /\ {CommitAt(1), CommitAt(2)} \subseteq DOMAIN cache
    /\ worktree = CommitAt(3)

====
